---- MODULE Spec2Model ----
(***************************************************************************)
(* Room lifecycle and realtime relay of VanishChat (server.js,             *)
(* controllers/roomController.js, services/cleanupService.js,              *)
(* models/Room.js, models/Message.js, schema.sql).                         *)
(*                                                                         *)
(* Node runs every handler to its next `await` without interruption, so    *)
(* each action below is one synchronous stretch of a handler, or the       *)
(* execution of one SQL statement by the store.  A statement executes at   *)
(* some moment after it was issued and its continuation runs at some later *)
(* moment; the pool (config/db.js) runs statements of different handlers   *)
(* concurrently, so statements and continuations interleave freely.        *)
(***************************************************************************)
EXTENDS Integers, Sequences, FiniteSets, TLC

\* ------------------------------------------------------------------ bounds
NumSockets  == 3      \* socket ids 1..NumSockets
MaxTime     == 3      \* the clock runs from 0 to MaxTime ticks
TicksPerSec == 2      \* clock ticks per DATETIME second (1000 ms in the code)
MaxEvents   == 4      \* events over a run: chat:join, chat:message, disconnect,
                      \* HTTP join request, interval tick
MaxInFlight == 2      \* handlers of sockets and HTTP requests in flight at once
MaxCycles   == 1      \* interval callbacks in flight at once
MaxCreates  == 2      \* create requests over a run
Lifetime    == 1      \* seconds from a create request to the expiry it asks for
MaxRequests == 1      \* create requests over a run in which the body is arbitrary
GraceTicks  == 1      \* ticks from the shutdown signal to the forced exit (10 s in
                      \* the code)

\* attempts of generateUniqueCode
MaxAttempts == 5

Sockets == 1..NumSockets
Sweeps  == 1..MaxEvents
Https   == 1..MaxEvents
Creates == 1..MaxCreates
Codes   == {"AAAAAA", "BBBBBB"}

\* offsets of the process's local zone from UTC, in DATETIME seconds: UTC, a zone
\* west of it and a zone east of it
Offsets == {-1, 0, 1}

NullCode == "null"
EmptyMap == [c \in {} |-> {}]
NullRoom == [id |-> 0, room_code |-> NullCode, type |-> "none", created_at |-> 0,
             expires_at |-> 0]

VARIABLES
    create,            \* per create request: createRoom in flight
    nextRoomId,        \* AUTO_INCREMENT of rooms.id
    tzOffset,          \* local time zone of the server process: its offset from UTC
    proc,              \* the server process: its phase, exit code, listening socket
                       \* and interval timers
    now,               \* the clock, in ticks
    rooms,             \* table rooms: set of rows
    messages,          \* table messages: sequence of rows in insertion order
    nextMsgId,         \* AUTO_INCREMENT of messages.id
    roomParticipants,  \* Map<roomCode, Set<socketId>>
    channel,           \* Socket.IO rooms: code -> set of socket ids
    connected,         \* socket id -> connection still open
    currentRoom,       \* socket.currentRoom
    nickname,          \* socket.nickname
    roomId,            \* socket.roomId
    join,              \* per socket: the chat:join handler in flight
    msg,               \* per socket: the chat:message handler in flight
    outbox,            \* per socket: events delivered to the client, in order
    cleanupInterval,   \* "null" or "timer": the handle of the timer set last
    sweep,             \* per interval callback: its position and locals
    http,              \* per HTTP join request: its position and locals
    eventsLeft         \* events still to come: chat:join, chat:message, disconnect,
                       \* HTTP join request, interval tick

vars == <<create, nextRoomId, tzOffset, proc, now, rooms, messages, nextMsgId, roomParticipants, channel, connected,
          currentRoom, nickname, roomId, join, msg, outbox, cleanupInterval,
          sweep, http, eventsLeft>>

\* ------------------------------------------------------------ time and SQL
\* new Date(): the process clock
JsNow(t) == t

\* NOW() / CURRENT_TIMESTAMP of a DATETIME column: whole seconds
DbNow(t) == t \div TicksPerSec

\* a DATETIME column as the driver hands it to the handler: a Date, the stored
\* wall-clock second taken as UTC (pool option timezone: 'Z', no dateStrings)
RowDate(datetime) == datetime * TicksPerSec

\* Date.prototype.toString: the wall clock of the process's local zone, to the
\* second
DateToString(d, offset) == (d \div TicksPerSec) + offset

\* new Date(text + "Z"): the trailing Z makes the parser read the wall clock of
\* the text as UTC
ParseUtc(wall) == wall * TicksPerSec

\* new Date(room.expires_at + "Z")
ExpiresAtZ(room) == ParseUtc(DateToString(RowDate(room.expires_at), tzOffset))

\* Room.findByCode
FindByCode(rs, code) ==
    IF \E r \in rs : r.room_code = code
    THEN CHOOSE r \in rs : r.room_code = code
    ELSE NullRoom

\* the sweeper's query with a strict comparison
FindExpiredStrict(rs, t) == {r \in rs : r.expires_at < DbNow(t)}

\* Room.findExpired: WHERE expires_at <= NOW() AND is_active = 1
FindExpired(rs, t) == {r \in rs : r.expires_at <= DbNow(t)}

\* a delete that raises an error when no row has the id
DeleteByIdStrict(rs, id) ==
    [rooms |-> {r \in rs : r.id # id}, err |-> ~(\E r \in rs : r.id = id)]

\* Room.deleteById: DELETE FROM rooms WHERE id = ?   (no row: nothing happens)
DeleteById(rs, id) == [rooms |-> {r \in rs : r.id # id}, err |-> FALSE]

\* a foreign key that leaves the messages of a deleted room in place
CascadeNone(ms, rs) == ms

\* fk_messages_room ... ON DELETE CASCADE
Cascade(ms, rs) == SelectSeq(ms, LAMBDA m : \E r \in rs : r.id = m.room_id)

\* ------------------------------------------------------------------ events
Ev(name, arg) == [ev |-> name, arg |-> arg]

\* deliver event e to the connected sockets of `targets`
Emit(ob, targets, e) ==
    [s \in Sockets |-> IF s \in targets /\ connected[s] THEN Append(ob[s], e) ELSE ob[s]]

Participants(code) ==
    IF code \in DOMAIN roomParticipants THEN roomParticipants[code] ELSE {}

Members(code) == IF code \in DOMAIN channel THEN channel[code] ELSE {}

IdleJoin == [pc |-> "idle", code |-> NullCode, room |-> NullRoom, hist |-> <<>>]
\* at: the instant at which the chat:message event arrived; gone: the id in
\* socket.roomId at that instant when no room of the store had it, else 0 (both
\* are records of the arrival, not locals of the handler)
IdleMsg  == [pc |-> "idle", found |-> FALSE, roomId |-> 0, id |-> 0, at |-> 0, gone |-> 0]
IdleSweep == [pc |-> "idle", expiredRooms |-> <<>>, i |-> 0, socketsInRoom |-> {}]
\* customExpiry: absent, a text Date cannot parse, or a text that names an instant
NoCustom == [kind |-> "missing", instant |-> 0]
BadCustom == [kind |-> "invalid", instant |-> 0]
Custom(instant) == [kind |-> "instant", instant |-> instant]

NullBody == [type |-> "none", expiryType |-> "none", customExpiry |-> NoCustom]
IdleCreate == [pc |-> "idle", body |-> NullBody, attempt |-> 0, code |-> NullCode,
               existing |-> FALSE, expiresAt |-> 0, status |-> 0]
IdleHttp == [pc |-> "idle", code |-> NullCode, room |-> NullRoom, status |-> 0]

\* handlers in flight: chat:join, chat:message and HTTP join
InFlight ==
    Cardinality({s \in Sockets : join[s].pc # "idle"})
    + Cardinality({s \in Sockets : msg[s].pc # "idle"})
    + Cardinality({h \in Https : http[h].pc \notin {"idle", "done"}})

\* socket ids are handed out in the order in which the sockets first act
Fresh(s) == connected[s] /\ currentRoom[s] = NullCode /\ join[s].pc = "idle" /\ outbox[s] = <<>>
InOrder(s) == \A j \in Sockets : j < s => ~Fresh(j)

\* -------------------------------------------------------------------- Init
InitRooms ==
    {[id |-> 1, room_code |-> "AAAAAA", type |-> "single", created_at |-> 0,
      expires_at |-> 1]}

\* two rooms that expire in the same second
InitRoomsTwo ==
    InitRooms \cup {[id |-> 2, room_code |-> "BBBBBB", type |-> "single", created_at |-> 0,
                     expires_at |-> 1]}

\* the process after server.listen: no signal received, no exit code, the
\* interval timer set; opened counts the connections accepted so far, deadline is
\* the instant at which the forced exit is due (NoTimer: none is set), timers is
\* the number of interval timers that setInterval has set and clearInterval has
\* not cleared
NoTimer == -1
NoExit == -1
Running(opened) ==
    [phase |-> "up", listening |-> TRUE, opened |-> opened, calls |-> <<>>,
     deadline |-> NoTimer, code |-> NoExit, timers |-> 1]

\* the start with the first `opened` sockets connected
InitProc(rs, budget, opened) ==
    /\ create = [c \in Creates |-> IdleCreate]
    /\ nextRoomId = Cardinality(rs) + 1
    /\ tzOffset \in Offsets
    /\ proc = Running(opened)
    /\ now = 0
    /\ rooms = rs
    /\ messages = <<>>
    /\ nextMsgId = 1
    /\ roomParticipants = EmptyMap
    /\ channel = [c \in Codes |-> {}]
    /\ connected = [s \in Sockets |-> s <= opened]
    /\ currentRoom = [s \in Sockets |-> NullCode]
    /\ nickname = [s \in Sockets |-> "null"]
    /\ roomId = [s \in Sockets |-> 0]
    /\ join = [s \in Sockets |-> IdleJoin]
    /\ msg = [s \in Sockets |-> IdleMsg]
    /\ outbox = [s \in Sockets |-> <<>>]
    /\ cleanupInterval = "timer"
    /\ sweep = [k \in Sweeps |-> IdleSweep]
    /\ http = [h \in Https |-> IdleHttp]
    /\ eventsLeft = budget

\* the start with every socket connected
InitOf(rs, budget) == InitProc(rs, budget, NumSockets)

InitWith(budget) == InitOf(InitRooms, budget)

Init == InitWith(MaxEvents)

\* the same start with one event less to come
InitShort == InitWith(MaxEvents - 1)

\* ------------------------------------------------------------------- clock
Tick ==
    /\ now < MaxTime
    /\ now' = now + 1
    /\ UNCHANGED <<create, nextRoomId, tzOffset, proc, rooms, messages, nextMsgId, roomParticipants, channel, connected,
                   currentRoom, nickname, roomId, join, msg, outbox,
                   cleanupInterval, sweep, http, eventsLeft>>


\* ------------------------------------------------------- chat:join handler
\* the expiry check of the chat:join handler
JoinExpired(room, t) == JsNow(t) >= ExpiresAtZ(room)

\* the capacity check with the bound off by one
RoomFullOffByOne(room, participants, sid) ==
    /\ room.type = "single"
    /\ Cardinality(participants) > 2
    /\ sid \notin participants

\* the capacity check without the exemption of a socket that is already registered
RoomFullNoRejoin(room, participants, sid) ==
    /\ room.type = "single"
    /\ Cardinality(participants) >= 2

\* single-room capacity check
RoomFull(room, participants, sid) ==
    /\ room.type = "single"
    /\ Cardinality(participants) >= 2
    /\ sid \notin participants

\* roomParticipants after registering sid under code
Track(rp, code, sid) ==
    [c \in (DOMAIN rp) \cup {code} |->
        IF c = code THEN (IF c \in DOMAIN rp THEN rp[c] ELSE {}) \cup {sid} ELSE rp[c]]

\* a removal that leaves the emptied set in the map
UntrackKeep(rp, code, sid) ==
    IF code \notin DOMAIN rp THEN rp
    ELSE [rp EXCEPT ![code] = @ \ {sid}]

\* roomParticipants after the disconnect handler's removal of sid from code
Untrack(rp, code, sid) ==
    IF code \notin DOMAIN rp THEN rp
    ELSE IF rp[code] \ {sid} = {}
         THEN [c \in (DOMAIN rp) \ {code} |-> rp[c]]
         ELSE [rp EXCEPT ![code] = @ \ {sid}]

\* a chat:join event with a well-formed code and nickname arrives; the handler
\* issues Room.findByCode and the store answers
JoinStart(s, code) ==
    /\ connected[s]
    /\ join[s].pc = "idle"
    /\ eventsLeft > 0
    /\ InFlight < MaxInFlight
    /\ InOrder(s)
    /\ eventsLeft' = eventsLeft - 1
    /\ join' = [join EXCEPT ![s] = [pc |-> "found", code |-> code,
                                    room |-> FindByCode(rooms, code), hist |-> <<>>]]
    /\ UNCHANGED <<create, nextRoomId, tzOffset, proc, now, rooms, messages, nextMsgId, roomParticipants, channel, connected,
                   currentRoom, nickname, roomId, msg, outbox, cleanupInterval,
                   sweep, http>>

\* the handler goes on with the room it was given:
\*   no room              error:room
\*   the room has expired Room.deleteById is issued
\*   a full single room   error:room
\*   otherwise            socket.join, session fields, registration, and
\*                        Message.findByRoomId is issued
JoinAfterFind(s) ==
    /\ join[s].pc = "found"
    /\ LET room == join[s].room
           code == join[s].code
       IN
       IF room = NullRoom THEN
            /\ outbox' = Emit(outbox, {s}, Ev("error:room", "notfound"))
            /\ join' = [join EXCEPT ![s] = IdleJoin]
            /\ UNCHANGED <<roomParticipants, channel, currentRoom, nickname, roomId>>
       ELSE IF JoinExpired(room, now) THEN
            /\ join' = [join EXCEPT ![s].pc = "del"]
            /\ UNCHANGED <<roomParticipants, channel, currentRoom, nickname, roomId, outbox>>
       ELSE IF RoomFull(room, Participants(code), s) THEN
            /\ outbox' = Emit(outbox, {s}, Ev("error:room", "full"))
            /\ join' = [join EXCEPT ![s] = IdleJoin]
            /\ UNCHANGED <<roomParticipants, channel, currentRoom, nickname, roomId>>
       ELSE
            /\ channel' = [channel EXCEPT ![code] = @ \cup {s}]
            /\ currentRoom' = [currentRoom EXCEPT ![s] = code]
            /\ nickname' = [nickname EXCEPT ![s] = "nick"]
            /\ roomId' = [roomId EXCEPT ![s] = room.id]
            /\ roomParticipants' = Track(roomParticipants, code, s)
            /\ join' = [join EXCEPT ![s].pc = "hist"]
            /\ UNCHANGED outbox
    /\ UNCHANGED <<create, nextRoomId, tzOffset, proc, now, rooms, messages, nextMsgId, connected, msg,
                   cleanupInterval, sweep, http, eventsLeft>>

\* the store executes the handler's DELETE
JoinDeleteExec(s) ==
    /\ join[s].pc = "del"
    /\ LET d == DeleteById(rooms, join[s].room.id) IN
        /\ rooms' = d.rooms
        /\ messages' = Cascade(messages, d.rooms)
        /\ join' = [join EXCEPT ![s].pc = IF d.err THEN "failed" ELSE "deleted"]
    /\ UNCHANGED <<create, nextRoomId, tzOffset, proc, now, nextMsgId, roomParticipants, channel, connected,
                   currentRoom, nickname, roomId, msg, outbox, cleanupInterval,
                   sweep, http, eventsLeft>>

\* a handler that, on finding the room expired, also ends the session's stay in it
JoinAfterDeleteReset(s) ==
    /\ join[s].pc = "deleted"
    /\ outbox' = Emit(outbox, {s}, Ev("room:expired", "join"))
    /\ join' = [join EXCEPT ![s] = IdleJoin]
    /\ currentRoom' = [currentRoom EXCEPT ![s] = NullCode]
    /\ nickname' = [nickname EXCEPT ![s] = "null"]
    /\ roomId' = [roomId EXCEPT ![s] = 0]
    /\ roomParticipants' = Untrack(roomParticipants, join[s].code, s)
    /\ channel' = [channel EXCEPT ![join[s].code] = @ \ {s}]
    /\ UNCHANGED <<create, nextRoomId, tzOffset, proc, now, rooms, messages, nextMsgId, connected,
                   msg, cleanupInterval, sweep, http, eventsLeft>>

\* after the delete: room:expired to the joining socket
JoinAfterDelete(s) ==
    /\ join[s].pc = "deleted"
    /\ outbox' = Emit(outbox, {s}, Ev("room:expired", "join"))
    /\ join' = [join EXCEPT ![s] = IdleJoin]
    /\ UNCHANGED <<create, nextRoomId, tzOffset, proc, now, rooms, messages, nextMsgId, roomParticipants, channel, connected,
                   currentRoom, nickname, roomId, msg, cleanupInterval,
                   sweep, http, eventsLeft>>

\* a chat:join event with a well-formed code and nickname arrives and
\* Room.findByCode throws
JoinFindFail(s, code) ==
    /\ connected[s]
    /\ join[s].pc = "idle"
    /\ eventsLeft > 0
    /\ InFlight < MaxInFlight
    /\ InOrder(s)
    /\ eventsLeft' = eventsLeft - 1
    /\ join' = [join EXCEPT ![s] = [pc |-> "failed", code |-> code,
                                    room |-> NullRoom, hist |-> <<>>]]
    /\ UNCHANGED <<create, nextRoomId, tzOffset, proc, now, rooms, messages, nextMsgId, roomParticipants, channel, connected,
                   currentRoom, nickname, roomId, msg, outbox, cleanupInterval,
                   sweep, http>>

\* the statement the handler is awaiting throws: Room.deleteById or
\* Message.findByRoomId; the store is left as it was
JoinStoreFail(s) ==
    /\ join[s].pc \in {"del", "hist"}
    /\ join' = [join EXCEPT ![s].pc = "failed"]
    /\ UNCHANGED <<create, nextRoomId, tzOffset, proc, now, rooms, messages, nextMsgId, roomParticipants, channel, connected,
                   currentRoom, nickname, roomId, msg, outbox, cleanupInterval,
                   sweep, http, eventsLeft>>

\* catch: a store call of the handler threw
JoinCatch(s) ==
    /\ join[s].pc = "failed"
    /\ outbox' = Emit(outbox, {s}, Ev("error:room", "failed"))
    /\ join' = [join EXCEPT ![s] = IdleJoin]
    /\ UNCHANGED <<create, nextRoomId, tzOffset, proc, now, rooms, messages, nextMsgId, roomParticipants, channel, connected,
                   currentRoom, nickname, roomId, msg, cleanupInterval,
                   sweep, http, eventsLeft>>

\* the orders in which ORDER BY sent_at ASC can return the rows of a room:
\* every arrangement of them with non-decreasing sent_at (rows with equal
\* sent_at come in an order the statement does not fix)
SentAtOrders(rows) ==
    LET n == Len(rows)
        perms == {p \in [1..n -> 1..n] : \A i, j \in 1..n : i # j => p[i] # p[j]}
    IN {[i \in 1..n |-> rows[p[i]]] : p \in
            {q \in perms : \A i, j \in 1..n : i < j => rows[q[i]].sent_at <= rows[q[j]].sent_at}}

\* Message.findByRoomId
FindByRoomId(ms, rid) == SentAtOrders(SelectSeq(ms, LAMBDA m : m.room_id = rid))

Ids(rows) == [i \in 1..Len(rows) |-> rows[i].id]

\* the store executes the handler's history SELECT
JoinHistExec(s) ==
    /\ join[s].pc = "hist"
    /\ \E h \in FindByRoomId(messages, join[s].room.id) :
          join' = [join EXCEPT ![s].pc = "gotHist", ![s].hist = Ids(h)]
    /\ UNCHANGED <<create, nextRoomId, tzOffset, proc, now, rooms, messages, nextMsgId, roomParticipants, channel, connected,
                   currentRoom, nickname, roomId, msg, outbox, cleanupInterval,
                   sweep, http, eventsLeft>>

\* a handler that sends the notice with io.to(code), which includes the joiner
JoinAfterHistToAll(s) ==
    /\ join[s].pc = "gotHist"
    /\ outbox' = Emit(Emit(Emit(outbox,
                    {s}, Ev("chat:history", join[s].hist)),
                    Members(join[s].code), Ev("chat:system", "joined")),
                    {s}, Ev("chat:joined", join[s].code))
    /\ join' = [join EXCEPT ![s] = IdleJoin]
    /\ UNCHANGED <<create, nextRoomId, tzOffset, proc, now, rooms, messages, nextMsgId, roomParticipants, channel, connected,
                   currentRoom, nickname, roomId, msg, cleanupInterval,
                   sweep, http, eventsLeft>>

\* chat:history to the joiner, chat:system to the others, chat:joined to the joiner
JoinAfterHist(s) ==
    /\ join[s].pc = "gotHist"
    /\ outbox' = Emit(Emit(Emit(outbox,
                    {s}, Ev("chat:history", join[s].hist)),
                    Members(join[s].code) \ {s}, Ev("chat:system", "joined")),
                    {s}, Ev("chat:joined", join[s].code))
    /\ join' = [join EXCEPT ![s] = IdleJoin]
    /\ UNCHANGED <<create, nextRoomId, tzOffset, proc, now, rooms, messages, nextMsgId, roomParticipants, channel, connected,
                   currentRoom, nickname, roomId, msg, cleanupInterval,
                   sweep, http, eventsLeft>>

\* -------------------------------------------------------------- disconnect
\* the connection closes: Socket.IO takes the socket out of its rooms, then the
\* disconnect handler runs
Disconnect(s) ==
    /\ connected[s]
    /\ eventsLeft > 0
    /\ eventsLeft' = eventsLeft - 1
    /\ InOrder(s)
    /\ connected' = [connected EXCEPT ![s] = FALSE]
    /\ channel' = [c \in DOMAIN channel |-> channel[c] \ {s}]
    /\ IF currentRoom[s] # NullCode
       THEN /\ roomParticipants' = Untrack(roomParticipants, currentRoom[s], s)
            /\ outbox' = IF nickname[s] # "null"
                         THEN Emit(outbox, Members(currentRoom[s]) \ {s}, Ev("chat:system", "left"))
                         ELSE outbox
       ELSE UNCHANGED <<roomParticipants, outbox>>
    /\ UNCHANGED <<create, nextRoomId, tzOffset, proc, now, rooms, messages, nextMsgId, currentRoom, nickname, roomId,
                   join, msg, cleanupInterval, sweep, http>>


\* ----------------------------------------------------------------- sweeper
\* the orders in which the store can return a set of rows
Orders(S) ==
    LET n == Cardinality(S)
    IN {q \in [1..n -> S] : \A i, j \in 1..n : i # j => q[i] # q[j]}

\* steps 1 and 2a of the per-room loop: io.to(code).emit('room:expired') and the
\* call of fetchSockets, which collects the sockets of the channel
SweepEvict(k, i) ==
    LET code == sweep[k].expiredRooms[i].room_code IN
    /\ outbox' = Emit(outbox, Members(code), Ev("room:expired", "sweep"))
    /\ sweep' = [sweep EXCEPT ![k].pc = "leave", ![k].i = i,
                              ![k].socketsInRoom = {s \in Members(code) : connected[s]}]

\* the interval fires: the callback issues Room.findExpired and the store answers
SweepFires(k, cycles) ==
    /\ proc.timers > 0
    /\ sweep[k].pc = "idle"
    /\ eventsLeft > 0
    /\ \A j \in Sweeps : j < k => sweep[j].pc # "idle"
    /\ Cardinality({j \in Sweeps : sweep[j].pc \notin {"idle", "done", "caught"}}) < cycles

SweepTickWithin(k, cycles) ==
    /\ SweepFires(k, cycles)
    /\ eventsLeft' = eventsLeft - 1
    /\ \E q \in Orders(FindExpired(rooms, now)) :
          sweep' = [sweep EXCEPT ![k].pc = "found", ![k].expiredRooms = q]
    /\ UNCHANGED <<create, nextRoomId, tzOffset, proc, now, rooms, messages, nextMsgId, roomParticipants, channel, connected,
                   currentRoom, nickname, roomId, join, msg, outbox, cleanupInterval,
                   http>>

SweepTick(k) == SweepTickWithin(k, MaxCycles)

\* the interval fires while an earlier callback may still be awaiting the store
SweepTickOverlap(k) == SweepTickWithin(k, MaxCycles + 1)

\* the interval fires and Room.findExpired throws
SweepFindFail(k) ==
    /\ SweepFires(k, MaxCycles + 1)
    /\ eventsLeft' = eventsLeft - 1
    /\ sweep' = [sweep EXCEPT ![k].pc = "failed"]
    /\ UNCHANGED <<create, nextRoomId, tzOffset, proc, now, rooms, messages, nextMsgId, roomParticipants, channel,
                   connected, currentRoom, nickname, roomId, join, msg, outbox,
                   cleanupInterval, http>>

\* the sweeper's DELETE throws: the room stays in the store
SweepDeleteFail(k) ==
    /\ sweep[k].pc = "del"
    /\ sweep' = [sweep EXCEPT ![k].pc = "failed"]
    /\ UNCHANGED <<create, nextRoomId, tzOffset, proc, now, rooms, messages, nextMsgId, roomParticipants, channel,
                   connected, currentRoom, nickname, roomId, join, msg, outbox,
                   cleanupInterval, http, eventsLeft>>

\* the callback goes on with the answer: nothing to do, or the loop starts with
\* the first expired room
SweepFound(k) ==
    /\ sweep[k].pc = "found"
    /\ IF Len(sweep[k].expiredRooms) = 0
       THEN /\ sweep' = [sweep EXCEPT ![k].pc = "done"]
            /\ UNCHANGED outbox
       ELSE SweepEvict(k, 1)
    /\ UNCHANGED <<create, nextRoomId, tzOffset, proc, now, rooms, messages, nextMsgId, roomParticipants, channel, connected,
                   currentRoom, nickname, roomId, join, msg, cleanupInterval,
                   http, eventsLeft>>

\* a loop that skips the leave of the fetched sockets
SweepLeaveNone(k) ==
    /\ sweep[k].pc = "leave"
    /\ sweep' = [sweep EXCEPT ![k].pc = "del", ![k].socketsInRoom = {}]
    /\ UNCHANGED <<create, nextRoomId, tzOffset, proc, now, rooms, messages, nextMsgId, roomParticipants, channel,
                   connected, currentRoom, nickname, roomId, join, msg, outbox,
                   cleanupInterval, http, eventsLeft>>

\* step 2b: the fetched sockets leave the channel; then Room.deleteById is issued
SweepLeave(k) ==
    /\ sweep[k].pc = "leave"
    /\ LET code == sweep[k].expiredRooms[sweep[k].i].room_code IN
          channel' = [channel EXCEPT ![code] = @ \ sweep[k].socketsInRoom]
    /\ sweep' = [sweep EXCEPT ![k].pc = "del", ![k].socketsInRoom = {}]
    /\ UNCHANGED <<create, nextRoomId, tzOffset, proc, now, rooms, messages, nextMsgId, roomParticipants, connected,
                   currentRoom, nickname, roomId, join, msg, outbox, cleanupInterval,
                   http, eventsLeft>>

\* step 3: the store executes the sweeper's DELETE
SweepDeleteExec(k) ==
    /\ sweep[k].pc = "del"
    /\ LET d == DeleteById(rooms, sweep[k].expiredRooms[sweep[k].i].id) IN
        /\ rooms' = d.rooms
        /\ messages' = Cascade(messages, d.rooms)
        /\ sweep' = [sweep EXCEPT ![k].pc = IF d.err THEN "failed" ELSE "deleted"]
    /\ UNCHANGED <<create, nextRoomId, tzOffset, proc, now, nextMsgId, roomParticipants, channel, connected,
                   currentRoom, nickname, roomId, join, msg, outbox, cleanupInterval,
                   http, eventsLeft>>

\* after the delete: the loop goes on with the next expired room, or ends
SweepAfterDelete(k) ==
    /\ sweep[k].pc = "deleted"
    /\ IF sweep[k].i < Len(sweep[k].expiredRooms)
       THEN SweepEvict(k, sweep[k].i + 1)
       ELSE /\ sweep' = [sweep EXCEPT ![k].pc = "done"]
            /\ UNCHANGED outbox
    /\ UNCHANGED <<create, nextRoomId, tzOffset, proc, now, rooms, messages, nextMsgId, roomParticipants, channel, connected,
                   currentRoom, nickname, roomId, join, msg, cleanupInterval,
                   http, eventsLeft>>

\* an interval callback without a catch: the rejection is unhandled and ends the
\* process, and with it the timer
SweepUncaught(k) ==
    /\ sweep[k].pc = "failed"
    /\ sweep' = [sweep EXCEPT ![k].pc = "caught"]
    /\ cleanupInterval' = "null"
    /\ proc' = [proc EXCEPT !.timers = 0]
    /\ UNCHANGED <<create, nextRoomId, tzOffset, now, rooms, messages, nextMsgId, roomParticipants, channel,
                   connected, currentRoom, nickname, roomId, join, msg, outbox,
                   http, eventsLeft>>

\* catch of the interval callback: the error is logged and the callback ends; the
\* rooms the loop had not reached are left to a later cycle
SweepCatch(k) ==
    /\ sweep[k].pc = "failed"
    /\ sweep' = [sweep EXCEPT ![k].pc = "caught"]
    /\ UNCHANGED <<create, nextRoomId, tzOffset, proc, now, rooms, messages, nextMsgId, roomParticipants, channel, connected,
                   currentRoom, nickname, roomId, join, msg, outbox, cleanupInterval,
                   http, eventsLeft>>

\* ---------------------------------------------------- joinRoom (HTTP join)
\* the expiry check of joinRoom
HttpExpired(room, t) == JsNow(t) >= ExpiresAtZ(room)

\* a request with a well-formed code arrives; Room.findByCode is issued and answered
HttpStart(h, code) ==
    /\ http[h].pc = "idle"
    /\ \A j \in Https : j < h => http[j].pc # "idle"
    /\ eventsLeft > 0
    /\ eventsLeft' = eventsLeft - 1
    /\ InFlight < MaxInFlight
    /\ http' = [http EXCEPT ![h] = [pc |-> "found", code |-> code,
                                    room |-> FindByCode(rooms, code), status |-> 0]]
    /\ UNCHANGED <<create, nextRoomId, tzOffset, proc, now, rooms, messages, nextMsgId, roomParticipants, channel, connected,
                   currentRoom, nickname, roomId, join, msg, outbox, cleanupInterval,
                   sweep>>

\* the request goes on with the room it was given: 404, or the room has expired
\* and Room.deleteById is issued, or 200
HttpAfterFind(h) ==
    /\ http[h].pc = "found"
    /\ IF http[h].room = NullRoom THEN
            http' = [http EXCEPT ![h].pc = "done", ![h].status = 404]
       ELSE IF HttpExpired(http[h].room, now) THEN
            http' = [http EXCEPT ![h].pc = "del"]
       ELSE
            http' = [http EXCEPT ![h].pc = "done", ![h].status = 200]
    /\ UNCHANGED <<create, nextRoomId, tzOffset, proc, now, rooms, messages, nextMsgId, roomParticipants, channel, connected,
                   currentRoom, nickname, roomId, join, msg, outbox, cleanupInterval,
                   sweep, eventsLeft>>

\* the store executes the request's DELETE
HttpDeleteExec(h) ==
    /\ http[h].pc = "del"
    /\ LET d == DeleteById(rooms, http[h].room.id) IN
        /\ rooms' = d.rooms
        /\ messages' = Cascade(messages, d.rooms)
        /\ http' = [http EXCEPT ![h].pc = IF d.err THEN "failed" ELSE "deleted"]
    /\ UNCHANGED <<create, nextRoomId, tzOffset, proc, now, nextMsgId, roomParticipants, channel, connected,
                   currentRoom, nickname, roomId, join, msg, outbox, cleanupInterval,
                   sweep, eventsLeft>>

\* 410
HttpGone(h) ==
    /\ http[h].pc = "deleted"
    /\ http' = [http EXCEPT ![h].pc = "done", ![h].status = 410]
    /\ UNCHANGED <<create, nextRoomId, tzOffset, proc, now, rooms, messages, nextMsgId, roomParticipants, channel, connected,
                   currentRoom, nickname, roomId, join, msg, outbox, cleanupInterval,
                   sweep, eventsLeft>>

\* catch: 500
HttpCatch(h) ==
    /\ http[h].pc = "failed"
    /\ http' = [http EXCEPT ![h].pc = "done", ![h].status = 500]
    /\ UNCHANGED <<create, nextRoomId, tzOffset, proc, now, rooms, messages, nextMsgId, roomParticipants, channel, connected,
                   currentRoom, nickname, roomId, join, msg, outbox, cleanupInterval,
                   sweep, eventsLeft>>


\* ---------------------------------------------------- chat:message handler
\* an INSERT into a table without the foreign key on room_id
MessageCreateNoFk(ms, rs, nextId, rid, sid, t) ==
    [messages |-> Append(ms, [id |-> nextId, room_id |-> rid,
                              sent_at |-> DbNow(t), from |-> sid]),
     insertId |-> nextId, err |-> FALSE]

\* Message.create: INSERT INTO messages; fk_messages_room refuses a room_id that
\* is not in rooms
MessageCreate(ms, rs, nextId, rid, sid, t) ==
    IF \E r \in rs : r.id = rid
    THEN [messages |-> Append(ms, [id |-> nextId, room_id |-> rid,
                                   sent_at |-> DbNow(t), from |-> sid]),
          insertId |-> nextId, err |-> FALSE]
    ELSE [messages |-> ms, insertId |-> 0, err |-> TRUE]

\* a chat:message event with a valid payload arrives on a joined socket; the
\* handler issues Room.findByCode(socket.currentRoom) and the store answers
MsgStart(s) ==
    /\ connected[s]
    /\ msg[s].pc = "idle"
    /\ eventsLeft > 0
    /\ InFlight < MaxInFlight
    /\ currentRoom[s] # NullCode /\ nickname[s] # "null"
    /\ eventsLeft' = eventsLeft - 1
    /\ msg' = [msg EXCEPT ![s] = [pc |-> "found", roomId |-> 0, id |-> 0, at |-> now,
                                  gone |-> IF \E r \in rooms : r.id = roomId[s]
                                           THEN 0 ELSE roomId[s],
                                  found |-> FindByCode(rooms, currentRoom[s]) # NullRoom]]
    /\ UNCHANGED <<create, nextRoomId, tzOffset, proc, now, rooms, messages, nextMsgId, roomParticipants, channel, connected,
                   currentRoom, nickname, roomId, join, outbox, cleanupInterval,
                   sweep, http>>

\* the handler goes on with the answer: no room, room:expired to the sender;
\* otherwise Message.create(socket.roomId, ...) is issued
MsgAfterFind(s) ==
    /\ msg[s].pc = "found"
    /\ IF ~msg[s].found
       THEN /\ outbox' = Emit(outbox, {s}, Ev("room:expired", "message"))
            /\ msg' = [msg EXCEPT ![s] = IdleMsg]
       ELSE /\ msg' = [msg EXCEPT ![s].pc = "create", ![s].roomId = roomId[s]]
            /\ UNCHANGED outbox
    /\ UNCHANGED <<create, nextRoomId, tzOffset, proc, now, rooms, messages, nextMsgId, roomParticipants, channel, connected,
                   currentRoom, nickname, roomId, join, cleanupInterval,
                   sweep, http, eventsLeft>>

\* the store executes the INSERT
MsgCreateExec(s) ==
    /\ msg[s].pc = "create"
    /\ LET c == MessageCreate(messages, rooms, nextMsgId, msg[s].roomId, s, now) IN
        /\ messages' = c.messages
        /\ nextMsgId' = IF c.err THEN nextMsgId ELSE nextMsgId + 1
        /\ msg' = [msg EXCEPT ![s].pc = IF c.err THEN "failed" ELSE "created",
                              ![s].id = c.insertId]
    /\ UNCHANGED <<create, nextRoomId, tzOffset, proc, now, rooms, roomParticipants, channel, connected,
                   currentRoom, nickname, roomId, join, outbox, cleanupInterval,
                   sweep, http, eventsLeft>>

\* io.to(socket.currentRoom).emit('chat:message')
MsgBroadcast(s) ==
    /\ msg[s].pc = "created"
    /\ outbox' = Emit(outbox, Members(currentRoom[s]), Ev("chat:message", msg[s].id))
    /\ msg' = [msg EXCEPT ![s] = IdleMsg]
    /\ UNCHANGED <<create, nextRoomId, tzOffset, proc, now, rooms, messages, nextMsgId, roomParticipants, channel, connected,
                   currentRoom, nickname, roomId, join, cleanupInterval,
                   sweep, http, eventsLeft>>

\* catch: the INSERT threw; the error is logged
MsgCatch(s) ==
    /\ msg[s].pc = "failed"
    /\ msg' = [msg EXCEPT ![s] = IdleMsg]
    /\ UNCHANGED <<create, nextRoomId, tzOffset, proc, now, rooms, messages, nextMsgId, roomParticipants, channel, connected,
                   currentRoom, nickname, roomId, join, outbox, cleanupInterval,
                   sweep, http, eventsLeft>>

\* -------------------------------------------------- createRoom (HTTP create)
\* new Date(now + duration).toISOString().slice(0, 19): the expiry as a UTC
\* DATETIME text, cut to the second
ExpiryText(t, seconds) == (JsNow(t) \div TicksPerSec) + seconds

\* a loop of generateUniqueCode that goes round once more
ExhaustedLate(attempt) == attempt >= MaxAttempts + 1

\* the for loop of generateUniqueCode has used its attempts
Exhausted(attempt) == attempt >= MaxAttempts

\* an INSERT into a table without the unique key on room_code
RoomCreateNoKey(rs, nextId, code, type, expiresAt, t) ==
    [rooms |-> rs \cup {[id |-> nextId, room_code |-> code, type |-> type,
                          created_at |-> DbNow(t), expires_at |-> expiresAt]},
     err |-> FALSE]

\* Room.create: INSERT INTO rooms; uq_room_code refuses a code that is in the
\* table; created_at defaults to CURRENT_TIMESTAMP
RoomCreate(rs, nextId, code, type, expiresAt, t) ==
    IF \E r \in rs : r.room_code = code
    THEN [rooms |-> rs, err |-> TRUE]
    ELSE [rooms |-> rs \cup {[id |-> nextId, room_code |-> code, type |-> type,
                              created_at |-> DbNow(t), expires_at |-> expiresAt]},
          err |-> FALSE]

\* ---- the body of a create request
Types == {"single", "group", "other"}
Presets == {"10m", "1h", "24h"}

\* the durations of the code in the model's seconds: Lifetime stands for the ten
\* minutes of '10m'
Duration(expiryType) ==
    CASE expiryType = "10m" -> Lifetime
      [] expiryType = "1h"  -> 6 * Lifetime
      [] expiryType = "24h" -> 144 * Lifetime

\* 30 * 24 * 60 * 60 * 1000 ms, in ticks
MaxAhead == 4320 * Lifetime * TicksPerSec

\* new Date(customExpiry).toISOString().slice(0, 19): the instant as a UTC DATETIME
\* text, cut to the second
CustomText(instant) == instant \div TicksPerSec

\* a check that lets the present instant pass
TooEarlyLax(instant, t) == instant < JsNow(t)

\* new Date(customExpiry) <= now
TooEarly(instant, t) == instant <= JsNow(t)

\* new Date(customExpiry) > maxExpiry
TooLate(instant, t) == instant > JsNow(t) + MaxAhead

\* createRoom up to the call of generateUniqueCode: the status it answers at once,
\* or 0 and the expiry text it goes on with
Validate(body, t) ==
    LET refuse(status) == [status |-> status, expiresAt |-> 0]
        accept(text)   == [status |-> 0, expiresAt |-> text]
        custom         == body.customExpiry
    IN IF body.type \notin {"single", "group"} THEN refuse(400)
       ELSE IF body.expiryType \in Presets
            THEN accept(ExpiryText(t, Duration(body.expiryType)))
       ELSE IF body.expiryType # "custom" THEN refuse(400)
       ELSE IF custom.kind = "missing" THEN refuse(400)
       ELSE IF custom.kind = "invalid" THEN refuse(500)   \* toISOString throws: catch
       ELSE IF TooEarly(custom.instant, t) THEN refuse(400)
       ELSE IF TooLate(custom.instant, t) THEN refuse(400)
       ELSE accept(CustomText(custom.instant))

\* a create request arrives: it is answered at once, or generateUniqueCode is
\* entered with the expiry text
CreateArrive(c, body) ==
    /\ create[c].pc = "idle"
    /\ \A j \in Creates : j < c => create[j].pc # "idle"
    /\ eventsLeft > 0
    /\ eventsLeft' = eventsLeft - 1
    /\ LET v == Validate(body, now) IN
          create' = [create EXCEPT ![c] =
                        IF v.status # 0
                        THEN [IdleCreate EXCEPT !.pc = "done", !.body = body,
                                                !.status = v.status]
                        ELSE [IdleCreate EXCEPT !.pc = "gen", !.body = body,
                                                !.expiresAt = v.expiresAt]]
    /\ UNCHANGED <<nextRoomId, tzOffset, proc, now, rooms, messages, nextMsgId,
                   roomParticipants, channel, connected, currentRoom, nickname, roomId,
                   join, msg, outbox, cleanupInterval, sweep, http>>

\* a create request for a single room that lasts '10m'
CreateStart(c) ==
    CreateArrive(c, [type |-> "single", expiryType |-> "10m", customExpiry |-> NoCustom])

\* one round of the loop: a random code is drawn, Room.findByCode is issued and
\* the store answers
CreateLookup(c) ==
    /\ create[c].pc = "gen"
    /\ \E code \in Codes :
          create' = [create EXCEPT ![c].pc = "looked", ![c].code = code,
                                   ![c].attempt = @ + 1,
                                   ![c].existing = FindByCode(rooms, code) # NullRoom]
    /\ UNCHANGED <<nextRoomId, tzOffset, proc, now, rooms, messages, nextMsgId,
                   roomParticipants, channel, connected, currentRoom, nickname, roomId,
                   join, msg, outbox, cleanupInterval, sweep, http, eventsLeft>>

\* the loop goes on with the answer: the code is free and Room.create is issued;
\* or the next round; or the attempts are used up and the function throws
CreateAfterLookup(c) ==
    /\ create[c].pc = "looked"
    /\ create' = [create EXCEPT ![c].pc =
                      IF ~create[c].existing THEN "insert"
                      ELSE IF Exhausted(create[c].attempt) THEN "failed"
                      ELSE "gen"]
    /\ UNCHANGED <<nextRoomId, tzOffset, proc, now, rooms, messages, nextMsgId,
                   roomParticipants, channel, connected, currentRoom, nickname, roomId,
                   join, msg, outbox, cleanupInterval, sweep, http, eventsLeft>>

\* the store executes the INSERT of Room.create
CreateInsertExec(c) ==
    /\ create[c].pc = "insert"
    /\ LET r == RoomCreate(rooms, nextRoomId, create[c].code, create[c].body.type,
                           create[c].expiresAt, now) IN
        /\ rooms' = r.rooms
        /\ nextRoomId' = IF r.err THEN nextRoomId ELSE nextRoomId + 1
        /\ create' = [create EXCEPT ![c].pc = IF r.err THEN "failed" ELSE "inserted"]
    /\ UNCHANGED <<tzOffset, proc, now, messages, nextMsgId,
                   roomParticipants, channel, connected, currentRoom, nickname, roomId,
                   join, msg, outbox, cleanupInterval, sweep, http, eventsLeft>>

\* 201 with the room's code, kind and expiry
CreateDone(c) ==
    /\ create[c].pc = "inserted"
    /\ create' = [create EXCEPT ![c].pc = "done", ![c].status = 201]
    /\ UNCHANGED <<nextRoomId, tzOffset, proc, now, rooms, messages, nextMsgId,
                   roomParticipants, channel, connected, currentRoom, nickname, roomId,
                   join, msg, outbox, cleanupInterval, sweep, http, eventsLeft>>

\* catch of createRoom: 500
CreateCatch(c) ==
    /\ create[c].pc = "failed"
    /\ create' = [create EXCEPT ![c].pc = "done", ![c].status = 500]
    /\ UNCHANGED <<nextRoomId, tzOffset, proc, now, rooms, messages, nextMsgId,
                   roomParticipants, channel, connected, currentRoom, nickname, roomId,
                   join, msg, outbox, cleanupInterval, sweep, http, eventsLeft>>

\* ------------------------------------------------- payloads of socket events
\* the state that a new connection and a shutdown signal leave alone
U == <<create, nextRoomId, tzOffset, now, rooms, messages, nextMsgId, roomParticipants,
       channel, currentRoom, nickname, roomId, join, msg, outbox, sweep, http>>

\* the process ends with an exit code: every connection ends with it, and the
\* participant registry and the channels, which live in its memory, are gone
Die(code) ==
    /\ proc' = [proc EXCEPT !.phase = "exited", !.code = code]
    /\ connected' = [s \in Sockets |-> FALSE]
    /\ roomParticipants' = EmptyMap
    /\ channel' = [c \in Codes |-> {}]
    /\ UNCHANGED <<create, nextRoomId, tzOffset, now, rooms, messages, nextMsgId,
                   currentRoom, nickname, roomId, join, msg, outbox, sweep, http,
                   cleanupInterval>>

\* process.exit(code)
Exit(code) == Die(code) /\ UNCHANGED eventsLeft

\* JavaScript values of the fields of a payload: undefined, a number, or a string,
\* which is a sequence of characters
Undefined == [t |-> "undefined", v |-> <<>>]
Num == [t |-> "number", v |-> <<>>]
Str(chars) == [t |-> "string", v |-> chars]

\* !x for these values: undefined and the empty string are falsy
Falsy(x) == x.t = "undefined" \/ (x.t = "string" /\ Len(x.v) = 0)

RECURSIVE TrimStart(_)
TrimStart(str) ==
    IF Len(str) > 0 /\ Head(str) = " " THEN TrimStart(Tail(str)) ELSE str

RECURSIVE TrimEnd(_)
TrimEnd(str) ==
    IF Len(str) > 0 /\ str[Len(str)] = " "
    THEN TrimEnd(SubSeq(str, 1, Len(str) - 1))
    ELSE str

\* String.prototype.trim
Trim(str) == TrimEnd(TrimStart(str))

\* String.prototype.toUpperCase, on the letters of the model
ToUpperCase(str) ==
    [i \in DOMAIN str |-> CASE str[i] = "a" -> "A"
                             [] str[i] = "b" -> "B"
                             [] OTHER -> str[i]]

\* String.prototype.slice(0, n)
Slice(str, n) == SubSeq(str, 1, IF Len(str) < n THEN Len(str) ELSE n)

\* xss(): the brackets of text that is no whitelisted tag are escaped
RECURSIVE Xss(_)
Xss(str) ==
    IF Len(str) = 0 THEN <<>>
    ELSE (CASE Head(str) = "<" -> <<"&", "l", "t", ";">>
            [] Head(str) = ">" -> <<"&", "g", "t", ";">>
            [] OTHER -> <<Head(str)>>) \o Xss(Tail(str))

\* the characters of [A-Z0-9] that the model uses
UpperAlnum == {"A", "B", "Z", "0", "9"}

CodeLength == 6
NickLength == 32

\* /^[A-Z0-9]{6}$/.test(code)
CodePattern(str) == Len(str) = CodeLength /\ \A i \in DOMAIN str : str[i] \in UpperAlnum

\* xss(roomCode.trim().toUpperCase().slice(0, 6))
CleanCode(str) == Xss(Slice(ToUpperCase(Trim(str)), CodeLength))

\* xss(nickname.trim().slice(0, 32))
CleanNick(str) == Xss(Slice(Trim(str), NickLength))

\* the characters of a room code of the model
Chars(code) ==
    IF code = "AAAAAA" THEN <<"A", "A", "A", "A", "A", "A">>
    ELSE <<"B", "B", "B", "B", "B", "B">>

\* the room code of the model that a well-formed sequence of characters spells
CodeText(str) == CHOOSE code \in Codes : Chars(code) = str

\* the input validation of the chat:join handler: TRUE when the handler goes on
JoinValid(payload) ==
    /\ ~Falsy(payload.roomCode) /\ payload.roomCode.t = "string"
    /\ ~Falsy(payload.nickname) /\ payload.nickname.t = "string"
    /\ CodePattern(CleanCode(payload.roomCode.v))
    /\ Len(CleanNick(payload.nickname.v)) >= 1

\* the payload of an event: null, absent (the parameter's default {} is taken),
\* or an object
NullPayload == [t |-> "null"]
NoPayload == [t |-> "undefined"]

CodeInputs ==
    {Undefined, Num, Str(<<>>),
     Str(<<"a", "a", "a", "a", "a", "a">>),
     Str(<<" ", "B", "B", "B", "B", "B", "B", " ">>),
     Str(<<"A", "A", "A", "A", "A", "A", "Z", "9">>),
     Str(<<"A", "A", "A">>),
     Str(<<"A", "A", "A", "A", "A", "-">>),
     Str(<<"<", "A", "A", "A", "A", "A">>)}

NickInputs == {Undefined, Num, Str(<<>>), Str(<<" ", " ">>), Str(<<" ", "n", " ">>)}

JoinPayloads ==
    {NullPayload, NoPayload}
    \cup [t : {"object"}, roomCode : CodeInputs, nickname : NickInputs]

\* the fields the destructuring parameter { roomCode, nickname } = {} binds
JoinFields(payload) ==
    IF payload.t = "object" THEN payload
    ELSE [t |-> "object", roomCode |-> Undefined, nickname |-> Undefined]

\* the parameter of an async handler cannot be bound (payload null): the promise
\* the handler returns is rejected, nobody handles it, and the process ends with
\* exit code 1
UnhandledRejection ==
    /\ eventsLeft' = eventsLeft - 1
    /\ Die(1)

\* a chat:join event arrives with any payload
ChatJoin(s, payload) ==
    /\ proc.phase # "exited"
    /\ connected[s]
    /\ join[s].pc = "idle"
    /\ eventsLeft > 0
    /\ InFlight < MaxInFlight
    /\ InOrder(s)
    /\ IF payload = NullPayload THEN UnhandledRejection
       ELSE IF ~JoinValid(JoinFields(payload))
       THEN /\ eventsLeft' = eventsLeft - 1
            /\ UNCHANGED <<U, proc, connected, cleanupInterval>>
       ELSE JoinStart(s, CodeText(CleanCode(payload.roomCode.v)))

\* the cap on the length of the ciphertext
MaxContent == 65536

\* content and iv of a chat:message payload: undefined, a number, or a string of
\* some length
Text(len) == [t |-> "string", len |-> len]
NoText == [t |-> "undefined", len |-> 0]
NumText == [t |-> "number", len |-> 0]

FalsyText(x) == x.t = "undefined" \/ (x.t = "string" /\ x.len = 0)

ContentInputs == {NoText, NumText, Text(0), Text(1), Text(MaxContent), Text(MaxContent + 1)}
IvInputs == {NoText, NumText, Text(0), Text(16)}

MsgPayloads ==
    {NullPayload, NoPayload}
    \cup [t : {"object"}, content : ContentInputs, iv : IvInputs]

MsgFields(payload) ==
    IF payload.t = "object" THEN payload
    ELSE [t |-> "object", content |-> NoText, iv |-> NoText]

\* the checks of the chat:message handler before its first await: TRUE when
\* the handler goes on
MsgValid(s, payload) ==
    /\ currentRoom[s] # NullCode /\ nickname[s] # "null"
    /\ ~FalsyText(payload.content) /\ payload.content.t = "string"
    /\ ~FalsyText(payload.iv) /\ payload.iv.t = "string"
    /\ ~(payload.content.len > MaxContent)

\* a chat:message event arrives with any payload
ChatMessage(s, payload) ==
    /\ proc.phase # "exited"
    /\ connected[s]
    /\ msg[s].pc = "idle"
    /\ eventsLeft > 0
    /\ InFlight < MaxInFlight
    /\ IF payload = NullPayload THEN UnhandledRejection
       ELSE IF ~MsgValid(s, MsgFields(payload))
       THEN /\ eventsLeft' = eventsLeft - 1
            /\ UNCHANGED <<U, proc, connected, cleanupInterval>>
       ELSE MsgStart(s)

\* ------------------------------------------- connections, shutdown and exit
\* a client connects: the listening server accepts the connection and the
\* connection handler sets socket.currentRoom and socket.nickname to null
Connect ==
    /\ proc.phase # "exited"
    /\ proc.listening
    /\ proc.opened < NumSockets
    /\ eventsLeft > 0
    /\ eventsLeft' = eventsLeft - 1
    /\ connected' = [connected EXCEPT ![proc.opened + 1] = TRUE]
    /\ proc' = [proc EXCEPT !.opened = @ + 1]
    /\ UNCHANGED <<U, cleanupInterval>>

\* startCleanup: setInterval sets a new timer and its handle is assigned to
\* cleanupInterval; a timer whose handle the variable held before stays set
StartCleanup ==
    /\ proc.phase # "exited"
    /\ eventsLeft > 0
    /\ eventsLeft' = eventsLeft - 1
    /\ cleanupInterval' = "timer"
    /\ proc' = [proc EXCEPT !.timers = @ + 1]
    /\ UNCHANGED <<U, connected>>

\* stopCleanup: with a handle in cleanupInterval, clearInterval clears the timer of
\* that handle and the variable is set to null; without one nothing is done
StopCleanup ==
    /\ proc.phase # "exited"
    /\ eventsLeft > 0
    /\ eventsLeft' = eventsLeft - 1
    /\ IF cleanupInterval # "null"
       THEN /\ cleanupInterval' = "null"
            /\ proc' = [proc EXCEPT !.timers = @ - 1]
       ELSE UNCHANGED <<cleanupInterval, proc>>
    /\ UNCHANGED <<U, connected>>

\* a shutdown that sets no timer for the forced exit
ShutdownWithoutTimer ==
    /\ proc.phase = "up"
    /\ now + GraceTicks <= MaxTime
    /\ cleanupInterval' = "null"
    /\ proc' = [proc EXCEPT !.phase = "closing", !.listening = FALSE,
                            !.calls = <<"stopCleanup", "server.close">>,
                            !.timers = IF cleanupInterval = "null" THEN @ ELSE @ - 1]
    /\ UNCHANGED <<U, connected, eventsLeft>>

\* SIGTERM or SIGINT: gracefulShutdown calls stopCleanup (clearInterval,
\* cleanupInterval = null), server.close and setTimeout, in this order, and
\* returns; the callbacks that are awaiting the store are not touched
GracefulShutdown ==
    /\ proc.phase = "up"
    /\ now + GraceTicks <= MaxTime
    /\ cleanupInterval' = "null"
    /\ proc' = [proc EXCEPT !.phase = "closing", !.listening = FALSE,
                            !.calls = <<"stopCleanup", "server.close", "setTimeout">>,
                            !.deadline = now + GraceTicks,
                            !.timers = IF cleanupInterval = "null" THEN @ ELSE @ - 1]
    /\ UNCHANGED <<U, connected, eventsLeft>>

\* the callback of server.close: the server has stopped listening and its last
\* connection has ended
ServerClosed ==
    /\ proc.phase = "closing"
    /\ \A s \in Sockets : ~connected[s]
    /\ \A h \in Https : http[h].pc \in {"idle", "done"}
    /\ \A c \in Creates : create[c].pc \in {"idle", "done"}
    /\ Exit(0)

\* the callback of the timer that gracefulShutdown set
ForceExit ==
    /\ proc.phase = "closing"
    /\ proc.deadline # NoTimer
    /\ now >= proc.deadline
    /\ Exit(1)

\* the clock of a process that is shutting down: the timer's callback runs at the
\* instant at which it is due
TickClosing ==
    /\ proc.phase = "closing"
    /\ proc.deadline # NoTimer => now < proc.deadline
    /\ Tick

\* ---------------------------------------------------------- specifications
\* Of the store calls only the INSERT is refused by the store itself (foreign
\* key).  A DELETE or SELECT fails only when the store is out of reach: the
\* sweeper's failures and its catch are steps of NextSweep, those of the chat:join
\* handler are steps of SpecJoinFaults; HttpCatch follows a failed DELETE, which
\* DeleteById never reports, so it is left out of the step relations.
JoinSteps ==
    \E s \in Sockets :
        \/ JoinStart(s, "AAAAAA")
        \/ JoinAfterFind(s)
        \/ JoinDeleteExec(s)
        \/ JoinAfterDelete(s)
        \/ JoinHistExec(s)
        \/ JoinAfterHist(s)

SweepSteps ==
    \E k \in Sweeps :
        \/ SweepTick(k)
        \/ SweepFound(k)
        \/ SweepLeave(k)
        \/ SweepDeleteExec(k)
        \/ SweepAfterDelete(k)

HttpSteps ==
    \E h \in Https :
        \/ HttpStart(h, "AAAAAA")
        \/ HttpAfterFind(h)
        \/ HttpDeleteExec(h)
        \/ HttpGone(h)

MsgSteps ==
    \E s \in Sockets :
        \/ MsgStart(s)
        \/ MsgAfterFind(s)
        \/ MsgCreateExec(s)
        \/ MsgBroadcast(s)
        \/ MsgCatch(s)

Next ==
    \/ Tick
    \/ JoinSteps
    \/ MsgSteps
    \/ \E s \in Sockets : Disconnect(s)
    \/ SweepSteps
    \/ HttpSteps

Spec == Init /\ [][Next]_vars

\* joins, disconnects and the sweeper: what changes the participant registry
\* and the channels
NextMembers ==
    \/ Tick
    \/ JoinSteps
    \/ \E s \in Sockets : Disconnect(s)
    \/ SweepSteps

SpecMembers == Init /\ [][NextMembers]_vars

\* joins, messages, the sweeper and HTTP joins: what changes the store
NextStore ==
    \/ Tick
    \/ JoinSteps
    \/ MsgSteps
    \/ SweepSteps
    \/ HttpSteps

SpecStore == InitShort /\ [][NextStore]_vars

\* the sweeper next to joins, with a store that answers every statement of the
\* sweeper and a callback that goes on whenever the store has answered
NextSweeper ==
    \/ Tick
    \/ JoinSteps
    \/ SweepSteps

SpecSweeper == InitShort /\ [][NextSweeper]_vars /\ WF_vars(SweepSteps)

\* create requests against a store in which one of the two codes is taken
CreateSteps ==
    \E c \in Creates :
        \/ CreateStart(c)
        \/ CreateLookup(c)
        \/ CreateAfterLookup(c)
        \/ CreateInsertExec(c)
        \/ CreateDone(c)
        \/ CreateCatch(c)

NextCreate ==
    \/ Tick
    \/ CreateSteps

InitCreate == InitOf(InitRooms, MaxEvents - 1)

SpecCreate == InitCreate /\ [][NextCreate]_vars

\* the bodies of create requests that arrive at instant t: every kind with every
\* preset, an unknown expiry option, and group rooms with a custom expiry around
\* the present instant and around the ceiling
Bodies(t) ==
    [type : Types, expiryType : Presets, customExpiry : {NoCustom}]
    \cup {[type |-> "group", expiryType |-> "never", customExpiry |-> NoCustom]}
    \cup [type : {"group"}, expiryType : {"custom"},
          customExpiry : {NoCustom, BadCustom}
                         \cup {Custom(t + d) : d \in {-1, 0, 1, TicksPerSec,
                                                      MaxAhead, MaxAhead + 1}}]

\* create requests with any body, one after the other
CreateAnySteps ==
    \E c \in Creates :
        \/ /\ \A j \in Creates : create[j].pc \in {"idle", "done"}
           /\ \E body \in Bodies(now) : CreateArrive(c, body)
        \/ CreateLookup(c)
        \/ CreateAfterLookup(c)
        \/ CreateInsertExec(c)
        \/ CreateDone(c)
        \/ CreateCatch(c)

NextCreateAny ==
    \/ Tick
    \/ CreateAnySteps

InitCreateAny == InitOf(InitRooms, MaxRequests)

SpecCreateAny == InitCreateAny /\ [][NextCreateAny]_vars

\* the sweeper over two expired rooms, with interval ticks that overlap and a
\* store that may fail, next to joins
SweepFaultSteps ==
    \E k \in Sweeps :
        \/ SweepTickOverlap(k)
        \/ SweepFound(k)
        \/ SweepLeave(k)
        \/ SweepDeleteExec(k)
        \/ SweepAfterDelete(k)
        \/ SweepFindFail(k)
        \/ SweepDeleteFail(k)
        \/ SweepCatch(k)

NextSweep ==
    \/ Tick
    \/ JoinSteps
    \/ SweepFaultSteps

InitSweep == InitOf(InitRoomsTwo, MaxEvents - 1)

SpecSweep == InitSweep /\ [][NextSweep]_vars

\* the same sweeper on its own
NextFaults ==
    \/ Tick
    \/ SweepFaultSteps

SpecFaults == InitSweep /\ [][NextFaults]_vars

\* chat:join for either code
JoinAnySteps ==
    \E s \in Sockets :
        \/ \E code \in Codes : JoinStart(s, code)
        \/ JoinAfterFind(s)
        \/ JoinDeleteExec(s)
        \/ JoinAfterDelete(s)
        \/ JoinHistExec(s)
        \/ JoinAfterHist(s)

\* two rooms side by side: sockets join either, send messages and disconnect
NextRooms ==
    \/ Tick
    \/ JoinAnySteps
    \/ MsgSteps
    \/ \E s \in Sockets : Disconnect(s)

InitRoomsSide == InitOf(InitRoomsTwo, MaxEvents)

SpecRooms == InitRoomsSide /\ [][NextRooms]_vars

\* chat:join for a code with a room and for a code without one
NextJoins ==
    \/ Tick
    \/ JoinAnySteps

SpecJoins == InitShort /\ [][NextJoins]_vars

\* chat:join against a store that may fail any statement of the handler
SpecJoinFaults ==
    InitShort /\ [][\/ Tick
                    \/ JoinAnySteps
                    \/ \E s \in Sockets :
                          \/ \E code \in Codes : JoinFindFail(s, code)
                          \/ JoinStoreFail(s)
                          \/ JoinCatch(s)]_vars

\* sessions over two rooms: sockets join either room, one after the other or at
\* once, and disconnect
SpecSessions ==
    InitSweep /\ [][Tick \/ JoinAnySteps \/ \E s \in Sockets : Disconnect(s)]_vars

\* handlers other than chat:message in flight: chat:join, interval callbacks and
\* create requests
Handling ==
    Cardinality({s \in Sockets : join[s].pc # "idle"})
    + Cardinality({k \in Sweeps : sweep[k].pc \notin {"idle", "done", "caught"}})
    + Cardinality({c \in Creates : create[c].pc \notin {"idle", "done"}})

\* a code comes round again: sockets join, the sweeper deletes the expired room,
\* create requests draw codes, and sockets join again; a chat:join, an interval
\* tick and a create request arrive when the one before has been handled
SpecRecycle ==
    InitOf(InitRooms, MaxEvents + 1)
    /\ [][\/ Tick
          \/ /\ Handling = 0
             /\ \/ \E s \in Sockets : JoinStart(s, "AAAAAA")
                \/ \E k \in Sweeps : SweepTick(k)
                \/ \E c \in Creates : CreateStart(c)
          \/ \E s \in Sockets :
                \/ JoinAfterFind(s)
                \/ JoinDeleteExec(s)
                \/ JoinAfterDelete(s)
                \/ JoinHistExec(s)
                \/ JoinAfterHist(s)
          \/ \E k \in Sweeps :
                \/ SweepFound(k)
                \/ SweepLeave(k)
                \/ SweepDeleteExec(k)
                \/ SweepAfterDelete(k)
          \/ \E c \in Creates :
                \/ CreateLookup(c)
                \/ CreateAfterLookup(c)
                \/ CreateInsertExec(c)
                \/ CreateDone(c)
                \/ CreateCatch(c)]_vars

\* the same with chat:message: a session of a deleted room goes on sending while
\* the code comes round again; chat:message events arrive at any moment.  The
\* process runs in UTC: the zone only moves the instant at which a handler takes
\* a room for expired.
InitReuse == InitOf(InitRooms, MaxEvents) /\ tzOffset = 0

SpecReuse ==
    InitReuse
    /\ [][\/ Tick
          \/ /\ Handling = 0
             /\ \/ \E s \in Sockets : JoinStart(s, "AAAAAA")
                \/ \E k \in Sweeps : SweepTick(k)
                \/ \E c \in Creates : CreateStart(c)
          \/ \E s \in Sockets :
                \/ JoinAfterFind(s)
                \/ JoinDeleteExec(s)
                \/ JoinAfterDelete(s)
                \/ JoinHistExec(s)
                \/ JoinAfterHist(s)
          \/ MsgSteps
          \/ \E k \in Sweeps :
                \/ SweepFound(k)
                \/ SweepLeave(k)
                \/ SweepDeleteExec(k)
                \/ SweepAfterDelete(k)
          \/ \E c \in Creates :
                \/ CreateLookup(c)
                \/ CreateAfterLookup(c)
                \/ CreateInsertExec(c)
                \/ CreateDone(c)
                \/ CreateCatch(c)]_vars

\* the sweeper under calls of startCleanup and stopCleanup that follow the call
\* of startCleanup in the callback of server.listen
SpecCleanup ==
    InitShort /\ [][Tick \/ StartCleanup \/ StopCleanup \/ SweepSteps]_vars

\* chat:join and chat:message events with any payload, well-formed or not
EventSteps ==
    \E s \in Sockets :
        \/ \E payload \in JoinPayloads : ChatJoin(s, payload)
        \/ \E payload \in MsgPayloads : ChatMessage(s, payload)
        \/ /\ proc.phase # "exited"
           /\ \/ JoinAfterFind(s)
              \/ JoinDeleteExec(s)
              \/ JoinAfterDelete(s)
              \/ JoinHistExec(s)
              \/ JoinAfterHist(s)
              \/ MsgAfterFind(s)
              \/ MsgCreateExec(s)
              \/ MsgBroadcast(s)
              \/ MsgCatch(s)

NextEvents ==
    \/ Tick
    \/ EventSteps

SpecEvents == InitShort /\ [][NextEvents]_vars

\* the life of the process: connections come and go, the sweeper runs, a signal
\* starts the shutdown, and the process exits; no step is taken after the exit.
\* The clock goes on, the timer of the forced exit fires when it is due, and
\* the store answers the sweeper's statements while the process lives.
SweepAlive == proc.phase # "exited" /\ SweepSteps

NextShutdown ==
    \/ proc.phase = "up" /\ Tick
    \/ TickClosing
    \/ Connect
    \/ proc.phase # "exited" /\ \E s \in Sockets : Disconnect(s)
    \/ SweepAlive
    \/ GracefulShutdown
    \/ ServerClosed
    \/ ForceExit

InitShutdown == InitProc(InitRooms, MaxEvents - 1, 0)

SpecShutdown ==
    /\ InitShutdown
    /\ [][NextShutdown]_vars
    /\ WF_vars(TickClosing)
    /\ WF_vars(ForceExit)
    /\ WF_vars(SweepAlive)

\* ------------------------------------------------------------------ claims
Got(s, name) == \E i \in DOMAIN outbox[s] : outbox[s][i].ev = name

GotArg(s, name, arg) ==
    \E i \in DOMAIN outbox[s] : outbox[s][i].ev = name /\ outbox[s][i].arg = arg

Ascending(q) == \A i, j \in DOMAIN q : i < j => q[i] < q[j]

\* the ids of the chat:message events socket s received, in the order of receipt
Delivered(s) ==
    LET evs == SelectSeq(outbox[s], LAMBDA e : e.ev = "chat:message")
    IN [i \in 1..Len(evs) |-> evs[i].arg]

\* the sweeper's DELETE for room r has been executed
SweptAway(r) ==
    \E k \in Sweeps : \E i \in DOMAIN sweep[k].expiredRooms :
        /\ sweep[k].expiredRooms[i] = r
        /\ \/ i < sweep[k].i
           \/ i = sweep[k].i /\ sweep[k].pc = "deleted"
           \/ sweep[k].pc = "done"

\* C1: the participant set of a single-kind room never holds more than two
\* socket ids, whatever the interleaving of joins, disconnects and sweeps.
C1_SingleRoomAtMostTwo ==
    \A r \in rooms :
        r.type = "single" => Cardinality(Participants(r.room_code)) <= 2

\* two sockets are registered in the single room and a third one was told it is full
C1_Witness ==
    \E r \in rooms : \E s \in Sockets :
        /\ r.type = "single"
        /\ Cardinality(Participants(r.room_code)) = 2
        /\ s \notin Participants(r.room_code)
        /\ GotArg(s, "error:room", "full")

\* C2: a chat:join of a socket that is already registered in a single room with
\* two participants, once past the handler's expiry check, is accepted and leaves
\* the participant registry as it was.
C2_RejoinIdempotent ==
    [][\A s \in Sockets :
          (/\ join[s].pc = "found" /\ join'[s].pc # "found"
           /\ join[s].room.type = "single"
           /\ ~JoinExpired(join[s].room, now)
           /\ s \in Participants(join[s].code)
           /\ Cardinality(Participants(join[s].code)) = 2)
          => (join'[s].pc = "hist" /\ roomParticipants' = roomParticipants)]_vars

\* a socket that had joined the full single room before has been accepted again
C2_Witness ==
    \E s \in Sockets :
        /\ join[s].pc = "hist"
        /\ connected[s]
        /\ Got(s, "chat:joined")
        /\ Cardinality(Participants(join[s].code)) = 2

\* C3: once a sweep cycle has completed for an expired room, roomParticipants has
\* no entry for its code.
C3_RegistryEmptyAfterSweep ==
    \A k \in Sweeps :
        sweep[k].pc = "done" =>
            \A i \in DOMAIN sweep[k].expiredRooms :
                sweep[k].expiredRooms[i].room_code \notin DOMAIN roomParticipants

\* C4: no connected socket stays in the channel of a code whose room is no longer
\* in the store without having received room:expired.
C4_MembersOfDeletedRoomNotified ==
    \A c \in Codes : \A s \in Members(c) :
        (connected[s] /\ FindByCode(rooms, c) = NullRoom) => Got(s, "room:expired")

\* C5: chat:joined is never emitted for a room that the sweeper has deleted.
C5_NoJoinedAfterSweep ==
    [][\A s \in Sockets :
          (join[s].pc = "gotHist" /\ join'[s].pc = "idle")
          => ~(SweptAway(join[s].room) /\ join[s].room \notin rooms)]_vars

\* C6: every socket receives the chat:message broadcasts in ascending message id,
\* the order in which the messages were persisted.
C6_DeliveryInPersistOrder == \A s \in Sockets : Ascending(Delivered(s))

\* C7: every chat:history lists the messages in ascending message id, the order
\* in which they were persisted.
C7_HistoryInPersistOrder ==
    \A s \in Sockets : \A i \in DOMAIN outbox[s] :
        outbox[s][i].ev = "chat:history" => Ascending(outbox[s][i].arg)

\* C8: every stored message references a room that is in the store.
C8_NoOrphanMessage ==
    \A i \in DOMAIN messages : \E r \in rooms : r.id = messages[i].room_id

\* the room was deleted and no message is left: one that had been persisted went
\* with the room, or an INSERT that raced the deletion was refused
C8_Witness ==
    /\ rooms = {}
    /\ messages = <<>>
    /\ \/ nextMsgId > 1
       \/ \E s \in Sockets : msg[s].pc = "failed"

\* C9: a delete of a room that is already gone raises no error, and once any of
\* the three paths has executed its delete the room is absent from the store.
C9_DeleteIdempotent ==
    /\ \A s \in Sockets : join[s].pc # "failed"
                          /\ (join[s].pc = "deleted" => join[s].room \notin rooms)
    /\ \A h \in Https : http[h].pc # "failed" /\ http[h].status # 500
                        /\ (http[h].pc = "deleted" \/ http[h].status = 410
                                => http[h].room \notin rooms)
    /\ \A k \in Sweeps : sweep[k].pc # "failed"
                         /\ \A i \in DOMAIN sweep[k].expiredRooms :
                               SweptAway(sweep[k].expiredRooms[i])
                                   => sweep[k].expiredRooms[i] \notin rooms

\* the sweeper, an HTTP join and a chat:join have each deleted the same room and
\* ended normally
C9_Witness ==
    \E s \in Sockets : \E h \in Https : \E k \in Sweeps :
        /\ GotArg(s, "room:expired", "join")
        /\ http[h].status = 410
        /\ sweep[k].pc = "done" /\ Len(sweep[k].expiredRooms) > 0
        /\ rooms = {}

\* C10: at every instant each of the three call sites decides 'expired' for a room
\* exactly when the instant is at or after the room's expiry.
C10_SameLivenessDecision ==
    \A r \in rooms :
        LET expired == now >= r.expires_at * TicksPerSec IN
        /\ JoinExpired(r, now) <=> expired
        /\ HttpExpired(r, now) <=> expired
        /\ (r \in FindExpired(rooms, now)) <=> expired

\* C11: a chat:message that arrives at or after the expiry instant of the sender's
\* room, while the room record is still in the store, is not persisted and not
\* broadcast; the sender gets room:expired.
C11_NoMessageAfterExpiry ==
    [][\A s \in Sockets :
          (/\ msg[s].pc = "found" /\ msg'[s].pc # "found"
           /\ msg[s].found
           /\ \E r \in rooms : /\ r.room_code = currentRoom[s]
                                /\ msg[s].at >= r.expires_at * TicksPerSec)
          => (/\ msg'[s].pc = "idle"
              /\ outbox'[s] = Append(outbox[s], Ev("room:expired", "message")))]_vars

\* C12: once the chat:message handler has answered room:expired, the session has
\* no current room and is in no participant set.
C12_ExpiredSessionDetached ==
    [][\A s \in Sockets :
          (msg[s].pc = "found" /\ ~msg[s].found /\ msg'[s].pc = "idle")
          => (/\ currentRoom'[s] = NullCode
              /\ \A c \in DOMAIN roomParticipants' : s \notin roomParticipants'[c])]_vars

\* the interval callbacks that are awaiting the store
Cycling == {k \in Sweeps : sweep[k].pc \notin {"idle", "done", "caught"}}

\* C13: when a sweep cycle has ended, every expired room it had found, other than
\* the one at which a failure occurred, has been deleted.
C13_FailureDoesNotStopCycle ==
    \A k \in Sweeps :
        sweep[k].pc \in {"done", "caught"} =>
            \A j \in DOMAIN sweep[k].expiredRooms :
                j # sweep[k].i => sweep[k].expiredRooms[j] \notin rooms

\* C14: an error inside a sweep cycle is caught in the callback: the timer stays
\* set and, when its turn comes, the next interval tick starts a new cycle.
C14_SweeperSurvivesFailure ==
    \A k \in Sweeps :
        sweep[k].pc = "caught" =>
            /\ cleanupInterval = "timer"
            /\ (eventsLeft > 0 /\ Cardinality(Cycling) <= MaxCycles)
                  => ENABLED (\E j \in Sweeps : SweepTickOverlap(j))

\* a cycle has failed and was caught, and a later interval tick has started a
\* cycle that found the rooms the failed one left behind
C14_Witness ==
    \E k, j \in Sweeps :
        /\ k < j
        /\ sweep[k].pc = "caught" /\ Len(sweep[k].expiredRooms) > 0
        /\ sweep[j].pc = "done" /\ Len(sweep[j].expiredRooms) > 0
        /\ rooms = {}

\* the number of room:expired notifications of the sweeper that socket s received
SweepNotices(s) ==
    Len(SelectSeq(outbox[s], LAMBDA e : e.ev = "room:expired" /\ e.arg = "sweep"))

Fetched(k) == {sweep[k].expiredRooms[i] : i \in DOMAIN sweep[k].expiredRooms}

\* C16: a sweep cycle that starts at or after the expiry instant of a room in the
\* store fetches that room, and every room a cycle has fetched is eventually
\* deleted.
C16_ExpiredRoomSwept ==
    /\ [][\A k \in Sweeps :
            (sweep[k].pc = "idle" /\ sweep'[k].pc = "found")
            => \A r \in rooms :
                  now >= r.expires_at * TicksPerSec
                      => \E i \in DOMAIN sweep'[k].expiredRooms :
                            sweep'[k].expiredRooms[i] = r]_vars
    /\ \A r \in InitRoomsTwo :
          (\E k \in Sweeps : r \in Fetched(k)) ~> (r \notin rooms)

\* a cycle that started after the expiry of the room has run to its end and the
\* room is gone
C16_Witness ==
    \E k \in Sweeps :
        /\ sweep[k].pc = "done"
        /\ \E r \in Fetched(k) : now >= r.expires_at * TicksPerSec /\ r \notin rooms

\* socket s receives a chat:message or chat:system broadcast in this step
GetsBroadcast(s) ==
    /\ Len(outbox'[s]) > Len(outbox[s])
    /\ \E i \in (Len(outbox[s]) + 1)..Len(outbox'[s]) :
          outbox'[s][i].ev \in {"chat:message", "chat:system"}

\* C17: the sweeper's leave step takes every fetched socket out of the channel
\* and closes no connection; a socket enters a channel only by an accepted
\* chat:join of its own; and a broadcast reaches only sockets of a channel.
C17_EvictedGetNoBroadcast ==
    [][/\ \A k \in Sweeps :
            (sweep[k].pc = "leave" /\ sweep'[k].pc = "del")
            => \A s \in sweep[k].socketsInRoom :
                  /\ connected'[s] = connected[s]
                  /\ s \notin channel'[sweep[k].expiredRooms[sweep[k].i].room_code]
       /\ \A s \in Sockets : \A c \in Codes :
            (s \notin channel[c] /\ s \in channel'[c])
            => (join[s].pc = "found" /\ join'[s].pc = "hist" /\ join[s].code = c)
       /\ \A s \in Sockets :
            GetsBroadcast(s) => \E c \in Codes : s \in channel[c]]_vars

\* a socket the sweeper has evicted is still connected and has sent a message
\* into the room, which was persisted before the delete; the broadcast did not
\* reach it
C17_Witness ==
    \E s \in Sockets :
        /\ connected[s]
        /\ SweepNotices(s) = 1
        /\ \A c \in Codes : s \notin channel[c]
        /\ nextMsgId > 1 /\ msg[s].pc = "idle"
        /\ ~Got(s, "chat:message")
        /\ \A t \in Sockets : t # s => outbox[t] = <<>>

\* socket s is registered under code c or subscribed to its channel, after the step
AttachedAfter(s, c) ==
    \/ c \in DOMAIN roomParticipants' /\ s \in roomParticipants'[c]
    \/ s \in channel'[c]

\* C18: a chat:join for a code without room is answered room-not-found and leaves
\* the store as it is; a chat:join for a room whose expiry has passed deletes the
\* room and is answered room:expired; either way the socket is afterwards neither
\* registered under the code nor in its channel.
C18_JoinNotFoundVersusExpired ==
    [][\A s \in Sockets :
          /\ (join[s].pc = "found" /\ join'[s].pc # "found" /\ join[s].room = NullRoom)
              => /\ rooms' = rooms /\ messages' = messages
                 /\ connected[s] =>
                       outbox'[s] = Append(outbox[s], Ev("error:room", "notfound"))
                 /\ ~AttachedAfter(s, join[s].code)
          /\ (/\ join[s].pc = "found" /\ join'[s].pc # "found"
              /\ join[s].room # NullRoom
              /\ now >= join[s].room.expires_at * TicksPerSec)
              => join'[s].pc = "del"
          /\ (join[s].pc = "deleted" /\ join'[s].pc # "deleted")
              => /\ join[s].room \notin rooms'
                 /\ connected[s] =>
                       outbox'[s] = Append(outbox[s], Ev("room:expired", "join"))
                 /\ ~AttachedAfter(s, join[s].code)]_vars

\* C19: the HTTP join answers 404 for a code without room and leaves the store as
\* it is; for a room whose expiry has passed, and only for such a room, it deletes
\* the room and answers 410; it answers 200 only for a room that is in the store
\* and whose expiry has not passed.
C19_HttpJoinOutcomes ==
    [][\A h \in Https :
          /\ (http[h].pc = "found" /\ http'[h].pc # "found")
              => LET room == http[h].room
                     expired == now >= room.expires_at * TicksPerSec
                 IN /\ rooms' = rooms /\ messages' = messages
                    /\ room = NullRoom <=> http'[h].status = 404
                    /\ (room # NullRoom /\ expired) <=> http'[h].pc = "del"
                    /\ http'[h].status = 200 => (room \in rooms /\ ~expired)
          /\ (http[h].pc = "deleted" /\ http'[h].pc # "deleted")
              => (http'[h].status = 410 /\ http[h].room \notin rooms')]_vars

\* C20: generateUniqueCode makes at most MaxAttempts lookups; it fails exactly
\* when the MaxAttempts-th lookup has collided like all before it; the request
\* then stores no room, is answered 500 and does nothing more.
C20_GenerationExhausted ==
    /\ [](\A c \in Creates : create[c].attempt <= MaxAttempts)
    /\ [][\A c \in Creates :
            /\ (create[c].pc = "looked" /\ create'[c].pc # "looked")
                => /\ create'[c].pc = "failed"
                        <=> (create[c].existing /\ create[c].attempt = MaxAttempts)
                   /\ rooms' = rooms
            /\ (create[c].pc = "failed" /\ create'[c].pc # "failed")
                => /\ create'[c].pc = "done" /\ create'[c].status = 500
                   /\ rooms' = rooms
            /\ create[c].pc = "done" => create'[c] = create[c]]_vars

\* a request has failed after MaxAttempts colliding lookups: it is answered 500 and
\* the store holds what it held before
C20_Witness ==
    \E c \in Creates :
        /\ create[c].pc = "done" /\ create[c].status = 500
        /\ create[c].attempt = MaxAttempts /\ create[c].existing
        /\ rooms = InitRooms

\* C21: no two rows of rooms have the same room_code, also when two create
\* requests draw the same code and both look it up before either inserts.
C21_CodesUnique ==
    \A r1, r2 \in rooms : r1.room_code = r2.room_code => r1 = r2

\* two requests drew the same code and both found it free; the INSERT of one was
\* executed and answered 201, the INSERT of the other was refused and answered 500
C21_Witness ==
    \E c, d \in Creates :
        /\ c # d
        /\ create[c].code = create[d].code
        /\ ~create[c].existing /\ ~create[d].existing
        /\ create[c].status = 201
        /\ create[d].status = 500
        /\ Cardinality({r \in rooms : r.room_code = create[c].code}) = 1

\* the custom instant of request c, when its body carries one
CustomInstant(c) == create[c].body.customExpiry.instant

HasCustomInstant(c) ==
    /\ create[c].body.type \in {"single", "group"}
    /\ create[c].body.expiryType = "custom"
    /\ create[c].body.customExpiry.kind = "instant"

\* C22: a create request with a custom expiry instant is answered 400 at once
\* when the instant is not after the present instant or more than MaxAhead after
\* it, and otherwise goes on to create the room with the instant, cut to the
\* second, as its expiry; a request that was answered does nothing more, and a row
\* enters rooms only by the INSERT of a request that went on.
C22_CustomExpiryWindow ==
    [][\A c \in Creates :
          /\ (create[c].pc = "idle" /\ create'[c].pc # "idle" /\ HasCustomInstant(c)')
              => LET instant == CustomInstant(c)'
                     outside == instant <= now \/ instant > now + MaxAhead
                 IN /\ rooms' = rooms
                    /\ outside => (create'[c].pc = "done" /\ create'[c].status = 400)
                    /\ ~outside => /\ create'[c].pc = "gen"
                                   /\ create'[c].expiresAt = instant \div TicksPerSec
          /\ create[c].pc = "done" => create'[c] = create[c]
          /\ rooms' # rooms => \E d \in Creates : /\ create[d].pc = "insert"
                                                   /\ create'[d].pc = "inserted"]_vars

\* a request whose custom instant is the instant of its arrival has been refused
\* and the store holds what it held before
C22_Witness ==
    \E c \in Creates :
        /\ HasCustomInstant(c)
        /\ create[c].pc = "done" /\ create[c].status = 400
        /\ CustomInstant(c) = now
        /\ rooms = InitRooms

\* C23: every row of rooms has expires_at later than created_at.
C23_ExpiryAfterCreation ==
    \A r \in rooms : r.expires_at > r.created_at

\* C25: a sweep cycle that is in flight when the sweeper is stopped runs to its end:
\* every room it had fetched is eventually deleted.
C25_StoppedCycleFinishes ==
    \A k \in Sweeps : \A r \in InitRooms :
        (cleanupInterval = "null" /\ k \in Cycling /\ r \in Fetched(k))
            ~> (r \notin rooms /\ k \notin Cycling)

\* C26: on a signal the process stops the sweeper, stops listening and sets the
\* timer of the forced exit, in this order; from then on no connection is
\* accepted; the process exits with 0 when the last connection has ended by the
\* end of the grace period and with 1 at the end of the grace period otherwise;
\* and it always exits.
C26_ShutdownTerminates ==
    /\ [][/\ (proc.phase = "up" /\ proc'.phase # "up")
               => /\ proc'.phase = "closing"
                  /\ proc'.calls = <<"stopCleanup", "server.close", "setTimeout">>
                  /\ cleanupInterval' = "null"
                  /\ ~proc'.listening
                  /\ proc'.deadline = now + GraceTicks
          /\ proc.phase # "up"
               => \A s \in Sockets : connected'[s] => connected[s]
          /\ (proc.phase # "exited" /\ proc'.phase = "exited")
               => /\ proc.phase = "closing"
                  /\ \/ /\ proc'.code = 0
                        /\ \A s \in Sockets : ~connected[s]
                        /\ now <= proc.deadline
                     \/ /\ proc'.code = 1
                        /\ now = proc.deadline]_vars
    /\ (proc.phase = "closing") ~> (proc.phase = "exited")

\* a connection was still open when the grace period ended and the process was
\* forced to exit
C26_Witness ==
    /\ proc.phase = "exited" /\ proc.code = 1
    /\ proc.opened > 0
    /\ now = proc.deadline
    /\ eventsLeft = MaxEvents - 2

\* the code of the room with id rid
CodeOfRoom(rid) == (CHOOSE r \in InitRoomsTwo : r.id = rid).room_code

\* C24: the id a chat:message broadcast carries is that of a message inserted
\* before; the broadcast reaches exactly the connected sockets subscribed to the
\* channel of the room the message was persisted in, the sender among them if
\* subscribed; and when the INSERT fails nothing is emitted.
C24_BroadcastAfterPersist ==
    [][\A s \in Sockets :
          /\ (msg[s].pc = "created" /\ msg'[s].pc = "idle")
              => /\ msg[s].id \in 1..(nextMsgId - 1)
                 /\ \A t \in Sockets :
                       IF connected[t] /\ t \in Members(CodeOfRoom(msg[s].roomId))
                       THEN outbox'[t] = Append(outbox[t], Ev("chat:message", msg[s].id))
                       ELSE outbox'[t] = outbox[t]
          /\ (msg[s].pc = "failed" /\ msg'[s].pc = "idle") => outbox' = outbox]_vars

\* C27: a socket that has disconnected is in no participant set.
C27_DisconnectedNotRegistered ==
    \A s \in Sockets :
        ~connected[s] => \A c \in DOMAIN roomParticipants : s \notin roomParticipants[c]

\* the session and registry state a chat:join can change
Session == <<roomParticipants, channel, currentRoom, nickname, roomId>>

\* C28: every step of a chat:join handler outside the path of an accepted join
\* (the arrival, the three rejections, the delete of an expired room) leaves the
\* participant registry, the channels and the session fields as they were.
C28_RejectionChangesNothing ==
    [][\A s \in Sockets :
          (/\ join'[s] # join[s]
           /\ join[s].pc \notin {"hist", "gotHist"}
           /\ join'[s].pc \notin {"hist", "gotHist"})
          => Session' = Session]_vars

\* a socket that had joined the room asked to join again after the expiry: it was
\* answered room:expired and its session and registration are what they were
C28_Witness ==
    \E s \in Sockets :
        /\ join[s].pc = "idle"
        /\ Got(s, "chat:joined")
        /\ outbox[s][Len(outbox[s])].ev = "room:expired"
        /\ currentRoom[s] = "AAAAAA" /\ nickname[s] = "nick" /\ roomId[s] = 1
        /\ s \in Participants("AAAAAA") /\ s \in Members("AAAAAA")

\* everything but the count of events still to come
AllButEvents ==
    <<create, nextRoomId, tzOffset, proc, now, rooms, messages, nextMsgId,
      roomParticipants, channel, connected, currentRoom, nickname, roomId, join, msg,
      outbox, cleanupInterval, sweep, http>>

\* the room code of the payload is a string that, trimmed, in upper case and cut
\* to CodeLength characters, is CodeLength characters of A-Z0-9
CodeWellFormed(payload) ==
    /\ payload.t = "object"
    /\ payload.roomCode.t = "string"
    /\ LET code == Slice(ToUpperCase(Trim(payload.roomCode.v)), CodeLength)
       IN Len(code) = CodeLength /\ \A i \in DOMAIN code : code[i] \in UpperAlnum

\* the nickname of the payload is a string that is not empty after trimming
NickWellFormed(payload) ==
    /\ payload.t = "object"
    /\ payload.nickname.t = "string"
    /\ Len(Trim(payload.nickname.v)) > 0

\* C29: a chat:join whose room code or nickname is not well-formed is dropped:
\* no lookup is issued, nothing is emitted, and registry, channels, session fields
\* and everything else stay as they were.
C29_InvalidJoinDropped ==
    [][\A s \in Sockets : \A payload \in JoinPayloads :
          (ChatJoin(s, payload) /\ ~(CodeWellFormed(payload) /\ NickWellFormed(payload)))
          => UNCHANGED AllButEvents]_vars

\* content and iv of the payload are strings
TextsAreStrings(payload) ==
    /\ payload.t = "object"
    /\ payload.content.t = "string"
    /\ payload.iv.t = "string"

\* C30: a chat:message on a session that has not joined, or with a content or iv
\* that is missing or no string, or with a content longer than MaxContent, changes
\* nothing; a content of exactly MaxContent characters with a valid iv on a joined
\* session passes the checks.
C30_InvalidMessageNoOp ==
    [][\A s \in Sockets : \A payload \in MsgPayloads :
          ChatMessage(s, payload)
          => /\ (\/ currentRoom[s] = NullCode
                 \/ ~TextsAreStrings(payload)
                 \/ payload.content.len > MaxContent)
                => UNCHANGED AllButEvents
             /\ (/\ currentRoom[s] # NullCode
                 /\ TextsAreStrings(payload)
                 /\ payload.content.len = MaxContent
                 /\ payload.iv.len > 0)
                => msg'[s].pc = "found"]_vars

\* positions of a client's event sequence
JoinedAt(s, i) == outbox[s][i].ev = "chat:joined"

HistoryAt(s, i) == outbox[s][i].ev = "chat:history"

\* C31: every successful chat:join delivers to the joining session one chat:history
\* and after it, with nothing in between, the chat:joined confirmation; the
\* 'joined' notice of the join goes to the other members of the room's channel and
\* to nobody else, so not to the joining session.  Stated of the step that ends a
\* successful join and of every client's event sequence.
C31_HistoryOnceBeforeJoined ==
    [][/\ \A s \in Sockets :
            (join[s].pc = "gotHist" /\ join'[s].pc = "idle") =>
                /\ outbox'[s] = IF connected[s]
                                THEN outbox[s] \o <<Ev("chat:history", join[s].hist),
                                                    Ev("chat:joined", join[s].code)>>
                                ELSE outbox[s]
                /\ \A o \in Sockets \ {s} :
                      outbox'[o] = IF o \in Members(join[s].code) /\ connected[o]
                                   THEN Append(outbox[o], Ev("chat:system", "joined"))
                                   ELSE outbox[o]
       /\ \A s \in Sockets : \A i \in DOMAIN outbox'[s] :
            /\ JoinedAt(s, i)' => i > 1 /\ HistoryAt(s, i - 1)'
            /\ HistoryAt(s, i)' => i < Len(outbox'[s]) /\ JoinedAt(s, i + 1)'
      ]_vars

\* a second session has joined the room of a first one: the first has the notice,
\* the second its history and confirmation
C31_Witness ==
    \E s, o \in Sockets :
        /\ s # o
        /\ Got(s, "chat:joined") /\ Got(s, "chat:history")
        /\ Got(o, "chat:joined")
        /\ GotArg(o, "chat:system", "joined")
        /\ ~Got(s, "chat:system")

\* C32: in every reachable state every key of the participant registry maps to a
\* non-empty set of session ids
C32_RegistrySetsNonEmpty ==
    \A code \in DOMAIN roomParticipants : roomParticipants[code] # {}

\* the last member of a room has disconnected and the room's key is gone, while
\* the key of another room stands
C32_Witness ==
    \E s \in Sockets :
        /\ ~connected[s]
        /\ currentRoom[s] # NullCode
        /\ currentRoom[s] \notin DOMAIN roomParticipants
        /\ DOMAIN roomParticipants # {}

\* C33: when a chat:join of a session that has not joined before ends in the
\* handler's catch (error:room "Failed to join room."), the session is left not
\* joined: it has no current room, is in no participant set and in no channel
C33_FailedJoinNotJoined ==
    [][\A s \in Sockets :
          (join[s].pc = "failed" /\ join'[s].pc = "idle" /\ ~Got(s, "chat:joined")) =>
              /\ currentRoom'[s] = NullCode
              /\ \A code \in DOMAIN roomParticipants' : s \notin roomParticipants'[code]
              /\ \A code \in DOMAIN channel' : s \notin channel'[code]
      ]_vars

\* the rooms in whose participant set, and in whose channel, a session is
RegisteredIn(s) == {code \in DOMAIN roomParticipants : s \in roomParticipants[code]}

SubscribedTo(s) == {code \in DOMAIN channel : s \in channel[code]}

\* C34: at any time a session is in at most one participant set and in at most
\* one channel, those of its current room
C34_AtMostOneRoom ==
    \A s \in Sockets :
        /\ Cardinality(RegisteredIn(s)) <= 1
        /\ Cardinality(SubscribedTo(s)) <= 1
        /\ RegisteredIn(s) \cup SubscribedTo(s) \subseteq {currentRoom[s]}

\* the sessions other than s that have joined the room with this id
JoinedTo(id, s) == {o \in Sockets \ {s} : roomId[o] = id}

\* C35: participant entries of an earlier room do not count against a later room
\* with the same code: a chat:join is refused as full only when two other sessions
\* have joined the very room it asks for
C35_OldEntriesDoNotCount ==
    [][\A s \in Sockets :
          (/\ join[s].pc = "found"
           /\ join'[s].pc = "idle"
           /\ Len(outbox'[s]) = Len(outbox[s]) + 1
           /\ outbox'[s][Len(outbox'[s])] = Ev("error:room", "full"))
          => Cardinality(JoinedTo(join[s].room.id, s)) >= 2
      ]_vars

\* message id m is in a chat:history that socket s received
InHistory(s, m) ==
    \E i \in DOMAIN outbox[s] :
        /\ outbox[s][i].ev = "chat:history"
        /\ \E j \in DOMAIN outbox[s][i].arg : outbox[s][i].arg[j] = m

\* the chat:message events with id m that socket s received
LiveCopies(s, m) == {i \in DOMAIN Delivered(s) : Delivered(s)[i] = m}

\* socket s has joined once, its join has ended with chat:joined, and it is still
\* connected and in the channel of its room
JoinedOnce(s) ==
    /\ connected[s]
    /\ join[s].pc = "idle"
    /\ Got(s, "chat:joined")
    /\ Len(SelectSeq(outbox[s], LAMBDA e : e.ev = "chat:history")) = 1
    /\ s \in Members(currentRoom[s])

\* message id m is stored for the room of socket s and its broadcast is over
Relayed(s, m) ==
    /\ \E i \in DOMAIN messages : messages[i].id = m /\ messages[i].room_id = roomId[s]
    /\ \A o \in Sockets : ~(msg[o].pc = "created" /\ msg[o].id = m)

\* C36: a session that has joined a room and stays in it sees every message of the
\* room exactly once: in the history of its join or as one live chat:message,
\* never in both and never in neither
C36_EachMessageOnce ==
    \A s \in Sockets : JoinedOnce(s) =>
        \A m \in 1..(nextMsgId - 1) :
            /\ ~(InHistory(s, m) /\ LiveCopies(s, m) # {})
            /\ Cardinality(LiveCopies(s, m)) <= 1
            /\ Relayed(s, m) => InHistory(s, m) \/ LiveCopies(s, m) # {}

\* the chat:message that socket s is handling arrived when the room the session
\* had joined was gone from the store, and the handler works with that room's id
Carries(s) ==
    /\ msg[s].gone # 0
    /\ (IF msg[s].pc = "found" THEN roomId[s] ELSE msg[s].roomId) = msg[s].gone

C38_NoCycleAfterStop ==
    [][/\ cleanupInterval = "null" =>
            \A k \in Sweeps : sweep[k].pc = "idle" => sweep'[k].pc = "idle"
       /\ (StopCleanup /\ cleanupInterval = "null") =>
            UNCHANGED <<U, proc, connected, cleanupInterval>>
      ]_vars

====
